---- MODULE Spec2Model ----
(***************************************************************************)
(* VEO Studio (src/Home.tsx): the Home component's state, its event        *)
(* handlers, and the asynchronous handleSubmit run (generateVideos, the    *)
(* bounded poll loop, the sequential downloads, catch/finally).            *)
(*                                                                         *)
(* A step is one event handler, or the part of handleSubmit between two   *)
(* awaits; React commits the state updates of a step before the next       *)
(* event is handled, so a handler reads the state the last step left.      *)
(*                                                                         *)
(* A string is a sequence of tokens; a token is an atomic piece of text.   *)
(* String.includes(m) is "some token is m"; the markers the code searches  *)
(* for are tokens of their own.                                            *)
(***************************************************************************)
EXTENDS Integers, Sequences, FiniteSets, TLC

\* ------------------------------------------------------------------ bounds
\* handleSubmit invocations that pass validation, over the session
MaxRuns == 2
\* artifacts in one operation response
MaxVideos == 2

\* --------------------------------------------------------- program constants
maxPolls == 60
PollInterval == 10000
MinVideos == 1
MaxVideoCount == 4
ModelName == "veo-2.0-generate-001"

\* ------------------------------------------------------------------ strings
T429 == "429"
TExhausted == "RESOURCE_EXHAUSTED"
TNotFound == "Requested entity was not found"
\* the text  "message": "  up to and including the opening quote of the value
TMsgKey == "\"message\": \""
TQuote == "\""

Includes(s, marker) == \E k \in 1..Len(s) : s[k] = marker

\* a token that contains a double-quote character
HasQuote(tok) == tok \in {TQuote, TMsgKey}

RateLimitNode == <<"You've exceeded your current API quota (Rate Limit). [rate-limits documentation]">>

\* /"message":\s*"(.*?)"/ : the first key that has a quote after it; the lazy
\* group stops at the first quote character after the key.
RegexMatch(error) ==
  LET keys == {k \in 1..Len(error) :
                 error[k] = TMsgKey /\ \E q \in (k+1)..Len(error) : HasQuote(error[q])}
  IN IF keys = {} THEN [matched |-> FALSE, group |-> <<>>]
     ELSE LET k == CHOOSE x \in keys : \A y \in keys : x <= y
              q == CHOOSE x \in (k+1)..Len(error) :
                     /\ HasQuote(error[x])
                     /\ \A y \in (k+1)..(x-1) : ~HasQuote(error[y])
          IN [matched |-> TRUE, group |-> SubSeq(error, k+1, q-1)]

parseError(error) ==
  IF Includes(error, T429) /\ Includes(error, TExhausted)
  THEN RateLimitNode
  ELSE LET match == RegexMatch(error)
       IN IF match.matched /\ match.group # <<>> THEN match.group ELSE error

ValidationMsg == <<"Please enter a prompt or upload an image to generate a video.">>
TimeoutMsg == <<"Video generation timed out. Please try again.">>
NoResultMsg == <<"Video generation failed to produce a result. Please check your prompt and settings.">>
DownloadPrefix == "Failed to download video: "
DownloadMsg(statusText) == <<DownloadPrefix>> \o statusText
UnexpectedMsg == <<"An unexpected error occurred.">>
\* variant: the message names no model
NotFoundMsgUnnamed(modelInUse) ==
  <<"Error: The model '", "the model", "' was not found. Please check the model name.">>
NotFoundMsg(modelInUse) ==
  <<"Error: The model '", modelInUse, "' was not found. Please check the model name.">>

\* the catch block's choice of message (lines 173-179)
CatchMessage(rawMessage, modelInUse) ==
  IF Includes(rawMessage, TNotFound)
  THEN NotFoundMsg(modelInUse)
  ELSE parseError(rawMessage)

\* loading messages
NoLoadingMsg == [text |-> "", attempt |-> 0, max |-> 0]
InitializingMsg == [text |-> "Initializing video generation...", attempt |-> 0, max |-> 0]
GeneratingMsg == [text |-> "Generating video... This can take a few minutes.", attempt |-> 0, max |-> 0]
\* variant: the attempt number is not the loop counter
PollingMsgFirst(pollCount) == [text |-> "Polling for status", attempt |-> 1, max |-> maxPolls]
PollingMsg(pollCount) == [text |-> "Polling for status", attempt |-> pollCount, max |-> maxPolls]
FetchingMsg == [text |-> "Fetching video data...", attempt |-> 0, max |-> 0]

\* ----------------------------------------------------- inputs of the model
PromptValues == {"", "a cat"}
NoImage == [data |-> "", mimeType |-> ""]
ImageValues == {[data |-> "aGVsbG8=", mimeType |-> "image/png"]}
NumInputs == {0, 5}

\* what the service can answer: response.generatedVideos absent, or a list
\* (present = FALSE: operation.response?.generatedVideos is undefined)
NoVideos == [present |-> FALSE, list |-> <<>>]
Uris(n) == [k \in 1..n |-> k]
VideoLists == {[present |-> TRUE, list |-> Uris(n)] : n \in 0..MaxVideos}
OperationValues ==
  {[done |-> FALSE, videos |-> NoVideos]}
    \cup {[done |-> TRUE, videos |-> v] : v \in {NoVideos} \cup VideoLists}

\* the polls at which the service answers anything but "not done yet" (a done
\* status, a rejection): the first two and the last two; the polls in between
\* go through the same statements
AnswerPolls == {1, 2, maxPolls - 1, maxPolls}

\* messages of the errors the SDK calls reject with
RawErrors ==
  { <<>>,
    <<T429, TExhausted>>,
    <<T429, TExhausted, TNotFound>>,
    <<TNotFound>>,
    <<"{", TMsgKey, "inner text", TQuote, "}">> }
NetworkError == <<"Failed to fetch">>
\* what fetch can resolve with
FetchResponses == {[ok |-> TRUE, statusText |-> <<"OK">>],
                   [ok |-> FALSE, statusText |-> <<"Forbidden">>]}

Handles == 1..(MaxRuns * MaxVideos)

\* ------------------------------------------------------------------- state
VARIABLES
  prompt, uploadedImage, numberOfVideos,      \* useState (lines 54, 61, 65)
  generatedVideos, isLoading, loadingMessage, \* useState (lines 55-57)
  showErrorModal, errorMessage,               \* useState (lines 58-59)
  runs,          \* handleSubmit invocations in flight, and the final state of
                 \* those that ended in the last step (observed once, then dropped)
  started,       \* number of invocations that passed validation
  blobStore,     \* the browser's blob URL store: object URLs created and not revoked
  staleRevokes,  \* URL.revokeObjectURL calls on a URL that is not in the store
  revokedNow     \* the URLs the last step passed to URL.revokeObjectURL, in call order

vars == <<prompt, uploadedImage, numberOfVideos, generatedVideos, isLoading,
          loadingMessage, showErrorModal, errorMessage, runs, started,
          blobStore, staleRevokes, revokedNow>>

ui == <<prompt, uploadedImage, numberOfVideos>>

\* no generateVideos call is pending
NoRequest == [model |-> "", prompt |-> "", config |-> [numberOfVideos |-> 0],
              image |-> NoImage]
\* the value of the local variable operation before generateVideos has answered
NoOperation == [ver |-> 0, done |-> FALSE, videos |-> NoVideos]
NoError == <<"no error">>

Init ==
  /\ prompt = ""
  /\ uploadedImage = NoImage
  /\ numberOfVideos = 1
  /\ generatedVideos = <<>>
  /\ isLoading = FALSE
  /\ loadingMessage = NoLoadingMsg
  /\ showErrorModal = FALSE
  /\ errorMessage = <<>>
  /\ runs = <<>>
  /\ started = 0
  /\ blobStore = {}
  /\ staleRevokes = 0
  /\ revokedNow = <<>>

Range(seq) == {seq[k] : k \in 1..Len(seq)}

\* variants of the revoke loop: left out; stopping after the first URL
RevokeNone(urls, store) == store
RevokeFirst(urls, store) == IF urls = <<>> THEN store ELSE store \ {urls[1]}
\* generatedVideos.forEach(URL.revokeObjectURL): the store after the calls
RevokeAll(urls, store) == store \ Range(urls)
\* ... and how many of the calls found their URL no longer in the store
StaleCalls(urls, store) == Len(urls) - Cardinality(store \cap Range(urls))

\* object URLs the program still holds a reference to
Referenced == Range(generatedVideos) \cup UNION {Range(runs[i].videoUrls) : i \in DOMAIN runs}

\* URL.createObjectURL(blob): a URL that is in use nowhere
createObjectURL ==
  CHOOSE h \in Handles :
    /\ h \notin blobStore \cup Referenced
    /\ \A g \in Handles : g \notin blobStore \cup Referenced => h <= g

\* ------------------------------------------------------------- UI handlers
\* <button type="submit" disabled={isLoading}> (lines 329-332): the form's only
\* submit button, so a disabled button also stops implicit submission
\* variant: a submit button that is never disabled
SubmitAlways == TRUE
SubmitEnabled == ~isLoading

Live(r) == r.pc # "done"
InFlight == SelectSeq(runs, Live)
\* the invocations after a step of invocation i that leaves it in state r
RunsWith(i, r) ==
  LET old == {runs[k].id : k \in {j \in DOMAIN runs : ~Live(runs[j])}}
      Kept(x) == x.id \notin old
  IN SelectSeq([runs EXCEPT ![i] = r], Kept)

\* the local state of a handleSubmit invocation after line 131, with the
\* generateVideos call of line 133 issued
NewRun(id) ==
  [ id |-> id,
    pc |-> "generate",
    \* the argument of the pending generateVideos call (lines 115-131)
    request |-> [model |-> ModelName,
                 prompt |-> prompt,
                 config |-> [numberOfVideos |-> numberOfVideos],
                 image |-> uploadedImage],
    \* payload.model, the one part of payload read after the call (line 174)
    model |-> ModelName,
    operation |-> NoOperation,
    pollCount |-> 0,
    videoUrls |-> <<>>,
    \* observation of the run
    calls |-> [generate |-> 1, poll |-> 0, fetch |-> 0],
    \* the operation passed to the last getVideosOperation call
    polledWith |-> 0,
    waited |-> 0,
    responses |-> <<>>,
    raw |-> NoError,
    errors |-> 0,
    installed |-> <<>> ]

\* variant: no validation
InputNeverMissing == FALSE
\* if (!prompt && !uploadedImage) (line 102)
InputMissing == prompt = "" /\ uploadedImage = NoImage

\* variant: the batch is kept after its URLs are revoked
VideosKeptOnSubmit == generatedVideos
\* setGeneratedVideos([]) of handleSubmit (line 109)
VideosAfterSubmit == <<>>

\* handleSubmit up to its first await (lines 100-133)
handleSubmit ==
  /\ SubmitEnabled
  /\ IF InputMissing
     THEN /\ errorMessage' = ValidationMsg
          /\ showErrorModal' = TRUE
          /\ runs' = InFlight
          /\ revokedNow' = <<>>
          /\ UNCHANGED <<ui, generatedVideos, isLoading, loadingMessage,
                         started, blobStore, staleRevokes>>
     ELSE /\ started < MaxRuns
          /\ isLoading' = TRUE
          /\ blobStore' = RevokeAll(generatedVideos, blobStore)
          /\ staleRevokes' = staleRevokes + StaleCalls(generatedVideos, blobStore)
          /\ revokedNow' = generatedVideos
          /\ generatedVideos' = VideosAfterSubmit
          /\ loadingMessage' = InitializingMsg
          /\ runs' = Append(InFlight, NewRun(started + 1))
          /\ started' = started + 1
          /\ UNCHANGED <<ui, showErrorModal, errorMessage>>

\* variant: the batch is kept after its URLs are revoked
VideosKeptOnClear == generatedVideos
\* setGeneratedVideos([]) of handleClear (line 70)
VideosAfterClear == <<>>

\* handleClear (lines 68-76)
handleClear ==
  /\ blobStore' = RevokeAll(generatedVideos, blobStore)
  /\ staleRevokes' = staleRevokes + StaleCalls(generatedVideos, blobStore)
  /\ revokedNow' = generatedVideos
  /\ generatedVideos' = VideosAfterClear
  /\ prompt' = ""
  /\ uploadedImage' = NoImage
  /\ numberOfVideos' = 1
  /\ runs' = InFlight
  /\ UNCHANGED <<isLoading, loadingMessage, showErrorModal, errorMessage, started>>

\* onChange of the prompt input (line 325)
setPrompt ==
  /\ \E p \in PromptValues : prompt' = p
  /\ runs' = InFlight
  /\ revokedNow' = <<>>
  /\ UNCHANGED <<uploadedImage, numberOfVideos, generatedVideos, isLoading,
                 loadingMessage, showErrorModal, errorMessage, started,
                 blobStore, staleRevokes>>

\* reader.onload of handleImageUpload (lines 83-91)
handleImageUpload ==
  /\ \E img \in ImageValues : uploadedImage' = img
  /\ runs' = InFlight
  /\ revokedNow' = <<>>
  /\ UNCHANGED <<prompt, numberOfVideos, generatedVideos, isLoading,
                 loadingMessage, showErrorModal, errorMessage, started,
                 blobStore, staleRevokes>>

\* handleRemoveImage (lines 96-98)
handleRemoveImage ==
  /\ uploadedImage' = NoImage
  /\ runs' = InFlight
  /\ revokedNow' = <<>>
  /\ UNCHANGED <<prompt, numberOfVideos, generatedVideos, isLoading,
                 loadingMessage, showErrorModal, errorMessage, started,
                 blobStore, staleRevokes>>

Min(a, b) == IF a < b THEN a ELSE b
Max(a, b) == IF a > b THEN a ELSE b
\* variant: no upper limit
ClampVideosNoCap(v) == Max(MinVideos, v)
\* Math.max(1, Math.min(4, Number(e.target.value)))
ClampVideos(v) == Max(MinVideos, Min(MaxVideoCount, v))

\* onChange of the num-videos input (line 367), Number(e.target.value) = v
changeNumVideosTo(v) ==
  /\ numberOfVideos' = ClampVideos(v)
  /\ runs' = InFlight
  /\ revokedNow' = <<>>
  /\ UNCHANGED <<prompt, uploadedImage, generatedVideos, isLoading,
                 loadingMessage, showErrorModal, errorMessage, started,
                 blobStore, staleRevokes>>

changeNumVideos == \E v \in NumInputs : changeNumVideosTo(v)

\* closeErrorModal (lines 196-198)
closeErrorModal ==
  /\ showErrorModal' = FALSE
  /\ runs' = InFlight
  /\ revokedNow' = <<>>
  /\ UNCHANGED <<ui, generatedVideos, isLoading, loadingMessage, errorMessage,
                 started, blobStore, staleRevokes>>

\* ------------------------------------------------ the asynchronous run
\* variant: setIsLoading(false) left out
LoadingKept == isLoading
\* finally: setIsLoading(false) (line 182)
LoadingAfterFinally == FALSE

\* catch and finally (lines 171-184), entered with the thrown error's message
Fail(i, r, message) ==
  LET rawMessage == IF message = <<>> THEN UnexpectedMsg ELSE message
      modelInUse == r.model
  IN /\ errorMessage' = CatchMessage(rawMessage, modelInUse)
     /\ showErrorModal' = TRUE
     /\ isLoading' = LoadingAfterFinally
     /\ loadingMessage' = NoLoadingMsg
     /\ runs' = RunsWith(i, [r EXCEPT !.pc = "done",
                                      !.raw = rawMessage,
                                      !.errors = @ + 1])
     /\ revokedNow' = <<>>
     /\ UNCHANGED <<ui, generatedVideos, started, blobStore, staleRevokes>>

\* variant: a do-while loop, the status is queried at least once
LoopTestAfterFirst(r) ==
  (~r.operation.done \/ r.pollCount = 0) /\ r.pollCount < maxPolls
\* variant: the done flag is not looked at
LoopTestCountOnly(r) == r.pollCount < maxPolls
\* variant: pollCount <= maxPolls
LoopTestInclusive(r) == ~r.operation.done /\ r.pollCount <= maxPolls
\* the loop test (line 140)
LoopTest(r) == ~r.operation.done /\ r.pollCount < maxPolls

\* variant: the length test left out
NoResultAbsentOnly(operation) == ~operation.videos.present
\* the empty-result test (line 151)
NoResult(operation) ==
  ~operation.videos.present \/ Len(operation.videos.list) = 0

\* variant: the loop stops one artifact early
MoreArtifactsButLast(r) == Len(r.videoUrls) + 1 < Len(r.operation.videos.list)
\* for (const videoData of ...) (line 158): an artifact is left after the
\* ones already downloaded
MoreArtifacts(r) == Len(r.videoUrls) < Len(r.operation.videos.list)

\* variant: the result is not installed
InstalledNone(r) == <<>>
\* setGeneratedVideos(videoUrls) (line 169)
InstalledVideos(r) == r.videoUrls

\* the head of the for loop: the next fetch (lines 158-160), or past the
\* loop setGeneratedVideos(videoUrls) and finally (lines 169, 181-184);
\* msg is the loading message in force
Download(i, r, msg) ==
  IF MoreArtifacts(r)
  THEN /\ runs' = RunsWith(i, [r EXCEPT !.pc = "fetch", !.calls.fetch = @ + 1])
       /\ loadingMessage' = msg
       /\ UNCHANGED <<ui, generatedVideos, isLoading, showErrorModal,
                      errorMessage, started>>
  ELSE /\ generatedVideos' = InstalledVideos(r)
       /\ isLoading' = LoadingAfterFinally
       /\ loadingMessage' = NoLoadingMsg
       /\ runs' = RunsWith(i, [r EXCEPT !.pc = "done", !.installed = r.videoUrls])
       /\ UNCHANGED <<ui, showErrorModal, errorMessage, started>>

\* from the loop test of line 140 to the next await (lines 140-160);
\* msg is the loading message set just before the test
Continue(i, r, msg) ==
  IF LoopTest(r)
  THEN /\ runs' = RunsWith(i, [r EXCEPT !.pc = "wait"])
       /\ loadingMessage' = msg
       /\ revokedNow' = <<>>
       /\ UNCHANGED <<ui, generatedVideos, isLoading, showErrorModal,
                      errorMessage, started, blobStore, staleRevokes>>
  ELSE IF ~r.operation.done
  THEN Fail(i, r, TimeoutMsg)
  ELSE IF NoResult(r.operation)
  THEN Fail(i, r, NoResultMsg)
  ELSE /\ Download(i, r, FetchingMsg)
       /\ revokedNow' = <<>>
       /\ UNCHANGED <<blobStore, staleRevokes>>

\* ai.models.generateVideos resolves (lines 133-137)
GenerateResolves(i) ==
  /\ runs[i].pc = "generate"
  /\ \E op \in OperationValues :
       Continue(i, [runs[i] EXCEPT !.operation = [ver |-> 1, done |-> op.done,
                                                  videos |-> op.videos],
                                   !.pollCount = 0,
                                   !.request = NoRequest],
                GeneratingMsg)

\* ai.models.generateVideos rejects
GenerateRejects(i) ==
  /\ runs[i].pc = "generate"
  /\ \E e \in RawErrors : Fail(i, [runs[i] EXCEPT !.request = NoRequest], e)

\* variant: every query passes the operation generateVideos returned
PollArgumentFirst(r) == 1
\* getVideosOperation({operation: operation}) (line 142): the operation
\* passed is the value the variable holds, named here by its version
PollArgument(r) == r.operation.ver

\* the timer of line 141 fires and getVideosOperation is called (line 142)
TimerFires(i) ==
  /\ runs[i].pc = "wait"
  /\ runs' = RunsWith(i, [runs[i] EXCEPT !.pc = "poll",
                                         !.polledWith = PollArgument(runs[i]),
                                         !.waited = @ + PollInterval,
                                         !.calls.poll = @ + 1])
  /\ revokedNow' = <<>>
  /\ UNCHANGED <<ui, generatedVideos, isLoading, loadingMessage, showErrorModal,
                 errorMessage, started, blobStore, staleRevokes>>

\* getVideosOperation resolves (lines 142-144), then the loop test; the
\* service answers with the successor of the operation it was passed
PollResolves(i) ==
  /\ runs[i].pc = "poll"
  /\ \E op \in OperationValues :
       LET r == [runs[i] EXCEPT !.operation = [ver |-> runs[i].polledWith + 1,
                                               done |-> op.done,
                                               videos |-> op.videos],
                                !.pollCount = @ + 1]
       IN /\ op.done => r.pollCount \in AnswerPolls
          /\ Continue(i, r, PollingMsg(r.pollCount))

\* getVideosOperation rejects
PollRejects(i) ==
  /\ runs[i].pc = "poll"
  /\ runs[i].pollCount + 1 \in AnswerPolls
  /\ \E e \in RawErrors : Fail(i, runs[i], e)

\* variant: the response status is not looked at
ResponseOkAlways(videoResponse) == TRUE
\* if (!videoResponse.ok) (line 161)
ResponseOk(videoResponse) == videoResponse.ok

\* fetch resolves (lines 160-164)
FetchResolves(i) ==
  /\ runs[i].pc = "fetch"
  /\ \E videoResponse \in FetchResponses :
       LET r == [runs[i] EXCEPT !.responses = Append(@, videoResponse.ok)]
       IN IF ~ResponseOk(videoResponse)
          THEN Fail(i, r, DownloadMsg(videoResponse.statusText))
          ELSE /\ runs' = RunsWith(i, [r EXCEPT !.pc = "blob"])
               /\ revokedNow' = <<>>
               /\ UNCHANGED <<ui, generatedVideos, isLoading, loadingMessage,
                              showErrorModal, errorMessage, started, blobStore,
                              staleRevokes>>

\* fetch or videoResponse.blob() rejects (network failure)
DownloadRejects(i) ==
  /\ runs[i].pc \in {"fetch", "blob"}
  /\ Fail(i, runs[i], NetworkError)

\* videoResponse.blob() resolves (lines 164-166), then the head of the loop
BlobResolves(i) ==
  /\ runs[i].pc = "blob"
  /\ blobStore' = blobStore \cup {createObjectURL}
  /\ UNCHANGED staleRevokes
  /\ revokedNow' = <<>>
  /\ Download(i, [runs[i] EXCEPT !.videoUrls = Append(@, createObjectURL)],
              loadingMessage)

\* a step of a handleSubmit invocation past its first await
RunStep(i) ==
  \/ GenerateResolves(i)
  \/ GenerateRejects(i)
  \/ TimerFires(i)
  \/ PollResolves(i)
  \/ PollRejects(i)
  \/ FetchResolves(i)
  \/ DownloadRejects(i)
  \/ BlobResolves(i)

Next ==
  \/ handleSubmit
  \/ handleClear
  \/ setPrompt
  \/ handleImageUpload
  \/ handleRemoveImage
  \/ changeNumVideos
  \/ closeErrorModal
  \/ \E i \in DOMAIN runs : GenerateResolves(i)
  \/ \E i \in DOMAIN runs : GenerateRejects(i)
  \/ \E i \in DOMAIN runs : TimerFires(i)
  \/ \E i \in DOMAIN runs : PollResolves(i)
  \/ \E i \in DOMAIN runs : PollRejects(i)
  \/ \E i \in DOMAIN runs : FetchResolves(i)
  \/ \E i \in DOMAIN runs : DownloadRejects(i)
  \/ \E i \in DOMAIN runs : BlobResolves(i)

Spec == Init /\ [][Next]_vars

\* the program with every number the num-videos input can deliver: the
\* empty field (0), numbers below, inside and above the limits
SettingsInputs == 0..(MaxVideoCount + 1)
SettingsNext ==
  \/ Next
  \/ \E v \in SettingsInputs : changeNumVideosTo(v)
SettingsSpec == Init /\ [][SettingsNext]_vars

\* every pending promise settles and every timer fires
FairSpec == Spec /\ WF_vars(\E i \in DOMAIN runs : RunStep(i))

\* ------------------------------------------------------------------ claims
LiveRuns == {i \in DOMAIN runs : Live(runs[i])}
EndedRuns == {i \in DOMAIN runs : ~Live(runs[i])}

\* C1: while a run is in flight (isLoading) no step starts another run, so no
\* second generateVideos call is issued, no step revokes an object URL, and
\* the current batch changes only when the run in flight installs its result;
\* at most one run is in flight; and once the prior run has ended a
\* submission with a prompt or an image starts a new run.
SubmitWhileBusyIsNoOp ==
  /\ [](Cardinality(LiveRuns) <= 1 /\ (isLoading <=> LiveRuns # {}))
  /\ [][isLoading =>
         /\ started' = started
         /\ blobStore \subseteq blobStore'
         /\ staleRevokes' = staleRevokes
         /\ (generatedVideos' # generatedVideos =>
               \E i \in DOMAIN runs' : /\ runs'[i].pc = "done"
                                       /\ runs'[i].installed = generatedVideos')]_vars
  /\ []((~isLoading /\ started \in 1..(MaxRuns - 1) /\ ~InputMissing)
          => ENABLED (handleSubmit /\ started' = started + 1))

\* a second run is in flight, started after the first one ended
SecondRunAccepted == started = 2 /\ isLoading /\ Cardinality(LiveRuns) = 1

\* C2: a run in which generateVideos and every poll answered (none rejected)
\* and no answer was done ends after exactly 60 status queries, each preceded
\* by one wait of the poll interval, with the time-out error; it issues no
\* download and installs nothing. No run ever issues a 61st query.
TimeoutAfterSixtyPolls ==
  \A i \in DOMAIN runs :
    /\ runs[i].calls.poll <= maxPolls
    /\ runs[i].waited \in {runs[i].calls.poll * PollInterval}
    /\ (/\ runs[i].pc = "done"
        /\ ~runs[i].operation.done
        /\ runs[i].operation.ver = runs[i].calls.generate + runs[i].calls.poll)
       => /\ runs[i].calls.poll = maxPolls
          /\ runs[i].waited = maxPolls * PollInterval
          /\ runs[i].raw = TimeoutMsg
          /\ errorMessage = TimeoutMsg
          /\ showErrorModal
          /\ runs[i].calls.fetch = 0
          /\ runs[i].videoUrls = <<>>
          /\ runs[i].installed = <<>>
          /\ generatedVideos = <<>>

\* a run has just ended with the time-out error after its 60th query
TimedOut ==
  \E i \in DOMAIN runs :
    /\ runs[i].pc = "done"
    /\ runs[i].raw = TimeoutMsg
    /\ runs[i].calls.poll = maxPolls
    /\ ~runs[i].operation.done

\* C3: no revokeObjectURL call is made on an object URL that is no longer in
\* the store (no handle is released twice), and every handle that a step
\* drops from generatedVideos was in the store before the step and is revoked
\* by it (no installed handle is dropped unreleased).
InstalledReleasedExactlyOnce ==
  /\ [](staleRevokes = 0)
  /\ [][\A h \in Range(generatedVideos) \ Range(generatedVideos') :
          h \in blobStore /\ h \notin blobStore']_vars

\* a submission has just released and dropped an installed batch of two
BatchReleased ==
  /\ isLoading
  /\ Len(revokedNow) = 2
  /\ Range(revokedNow) \cap blobStore = {}
  /\ generatedVideos = <<>>

\* C4: a run in which the download of one artifact was answered with a
\* response that is not ok ends at that response with the download error:
\* the failing response is the last one fetched (no later artifact is
\* downloaded) and nothing is installed, the current batch stays empty.
DownloadFailureFailsWholeRun ==
  \A i \in DOMAIN runs :
    (FALSE \in Range(runs[i].responses))
      => /\ runs[i].pc = "done"
         /\ runs[i].raw[1] = DownloadPrefix
         /\ errorMessage = runs[i].raw
         /\ showErrorModal
         /\ runs[i].calls.fetch = Len(runs[i].responses)
         /\ \A k \in 1..Len(runs[i].responses) :
              runs[i].responses[k] = (k < Len(runs[i].responses))
         /\ runs[i].installed = <<>>
         /\ generatedVideos = <<>>

\* the second of two artifacts failed to download after the first was fetched
SecondDownloadFailed ==
  \E i \in DOMAIN runs :
    /\ runs[i].pc = "done"
    /\ runs[i].responses = <<TRUE, FALSE>>
    /\ Len(runs[i].videoUrls) = 1
    /\ generatedVideos = <<>>

\* C5: a run that passed validation ends in exactly one of two ways: all N
\* artifacts of the result were downloaded and the N object URLs are the
\* current batch, with no error reported by the run; or the run reported
\* exactly one error (the catch block's message) and installed nothing.
NoPartialSuccess ==
  \A i \in EndedRuns :
    \/ /\ runs[i].errors = 0
       /\ runs[i].raw = NoError
       /\ runs[i].operation.done
       /\ Len(runs[i].operation.videos.list) >= 1
       /\ Len(runs[i].videoUrls) = Len(runs[i].operation.videos.list)
       /\ runs[i].installed = runs[i].videoUrls
       /\ generatedVideos = runs[i].videoUrls
    \/ /\ runs[i].errors = 1
       /\ runs[i].raw # NoError
       /\ errorMessage = CatchMessage(runs[i].raw, runs[i].model)
       /\ showErrorModal
       /\ runs[i].installed = <<>>
       /\ generatedVideos = <<>>

\* a run has just installed a full batch of two
FullBatchInstalled ==
  \E i \in EndedRuns :
    /\ runs[i].errors = 0
    /\ Len(generatedVideos) = 2
    /\ Len(runs[i].operation.videos.list) = 2

\* C6: a submission with an empty prompt and no image reports the validation
\* error and does nothing else: isLoading is not set, no run is started (no
\* generateVideos call, hence no poll and no fetch), nothing is revoked and
\* the current batch is unchanged; no generateVideos call ever carries an
\* empty prompt without an image.
ValidationBeforeNetwork ==
  /\ [][(prompt = "" /\ uploadedImage = NoImage /\ handleSubmit) =>
         /\ errorMessage' = ValidationMsg
         /\ showErrorModal'
         /\ ~isLoading'
         /\ started' = started
         /\ LiveRuns' = {}
         /\ revokedNow' = <<>>
         /\ blobStore' = blobStore
         /\ generatedVideos' = generatedVideos]_vars
  /\ [](\A i \in DOMAIN runs :
          runs[i].pc = "generate" =>
            ~(runs[i].request.prompt = "" /\ runs[i].request.image = NoImage))

\* the validation error is shown while an installed batch is still in place
ValidationFailedWithBatch ==
  /\ errorMessage = ValidationMsg
  /\ showErrorModal
  /\ prompt = ""
  /\ uploadedImage = NoImage
  /\ ~isLoading
  /\ generatedVideos # <<>>
  /\ Range(generatedVideos) \subseteq blobStore

\* C7: handleClear passes every URL of the current batch to revokeObjectURL
\* once, each of them is in the store before and none after; afterwards the
\* batch is empty and no revoked URL is referenced by the session state.
ClearReleasesBatch ==
  [][handleClear =>
       /\ revokedNow' = generatedVideos
       /\ Cardinality(Range(generatedVideos)) = Len(generatedVideos)
       /\ Range(generatedVideos) \subseteq blobStore
       /\ blobStore' = blobStore \ Range(generatedVideos)
       /\ staleRevokes' = staleRevokes
       /\ generatedVideos' = <<>>
       /\ Range(generatedVideos) \cap Referenced' = {}]_vars

\* handleClear has just released a batch of two
ClearedBatchOfTwo ==
  /\ ~isLoading
  /\ Len(revokedNow) = 2
  /\ generatedVideos = <<>>
  /\ Range(revokedNow) \cap blobStore = {}
  /\ prompt = ""

\* C8: isLoading is true in every state in which a run is in flight, it is
\* false when a run has ended, whichever way it ended, and, every pending
\* call settling, a run that is loading reaches the state in which it is not.
BusyUntilRunEnds ==
  /\ [](LiveRuns # {} => isLoading)
  /\ [](EndedRuns # {} => ~isLoading)
  /\ [][started' = started + 1 => isLoading']_vars
  /\ (isLoading ~> ~isLoading)

\* a run has ended on a rejected poll and isLoading is cleared
EndedOnRejectedPoll ==
  \E i \in EndedRuns :
    /\ ~isLoading
    /\ runs[i].calls.poll >= 1
    /\ runs[i].operation.ver < runs[i].calls.generate + runs[i].calls.poll

\* C9: a run whose last status is done with no artifacts (generatedVideos
\* absent or empty) ends with the no-result error, issues no download and
\* creates and installs no object URL.
EmptyResultFails ==
  \A i \in DOMAIN runs :
    (/\ runs[i].operation.done
     /\ (~runs[i].operation.videos.present \/ runs[i].operation.videos.list = <<>>))
      => /\ runs[i].pc = "done"
         /\ runs[i].raw = NoResultMsg
         /\ errorMessage = NoResultMsg
         /\ showErrorModal
         /\ runs[i].calls.fetch = 0
         /\ runs[i].videoUrls = <<>>
         /\ runs[i].installed = <<>>
         /\ generatedVideos = <<>>

\* a poll answered done with an empty list of videos
EmptyListReported ==
  \E i \in EndedRuns :
    /\ runs[i].operation.done
    /\ runs[i].operation.videos.present
    /\ runs[i].operation.videos.list = <<>>
    /\ runs[i].calls.poll >= 1
    /\ runs[i].raw = NoResultMsg

\* C10: a run that failed with a raw message containing both the 429 marker
\* and the RESOURCE_EXHAUSTED marker reports the rate-limit message, whatever
\* else the raw message contains.
RateLimitWins ==
  \A i \in EndedRuns :
    (Includes(runs[i].raw, T429) /\ Includes(runs[i].raw, TExhausted))
      => errorMessage = RateLimitNode

\* C11: within a run the generateVideos call has returned before any status
\* query is issued; a query is issued only when no query is pending, so the
\* queries are sequential, and they are counted 1, 2, ...: the counter and
\* the attempt number shown grow by exactly one per answered query and never
\* exceed 60; a fetch is issued only when the last status received is done
\* with a non-empty list of videos, and never more fetches than videos.
OrderedCalls ==
  /\ [](\A i \in DOMAIN runs :
          /\ runs[i].calls.generate = 1
          /\ runs[i].calls.poll \in 0..maxPolls
          /\ runs[i].pollCount \in {runs[i].calls.poll - 1, runs[i].calls.poll} \cap 0..maxPolls
          /\ (runs[i].pc = "poll" <=>
                (Live(runs[i]) /\ runs[i].pollCount = runs[i].calls.poll - 1))
          /\ (runs[i].calls.poll >= 1 => runs[i].operation.ver >= 1)
          /\ (runs[i].pc \in {"wait", "poll"} =>
                loadingMessage = IF runs[i].pollCount = 0
                                 THEN GeneratingMsg
                                 ELSE [text |-> "Polling for status",
                                       attempt |-> runs[i].pollCount,
                                       max |-> maxPolls])
          /\ (runs[i].calls.fetch >= 1 =>
                /\ runs[i].operation.done
                /\ runs[i].operation.videos.present
                /\ runs[i].calls.fetch <= Len(runs[i].operation.videos.list)
                /\ runs[i].operation.ver = runs[i].calls.generate + runs[i].calls.poll))
  /\ [][/\ \A i \in DOMAIN runs : \A j \in DOMAIN runs' :
             runs[i].id = runs'[j].id =>
               /\ runs'[j].calls.poll \in {runs[i].calls.poll, runs[i].calls.poll + 1}
               /\ (runs'[j].calls.poll = runs[i].calls.poll + 1 =>
                     /\ runs[i].pc = "wait"
                     /\ runs[i].operation.ver = 1 + runs[i].calls.poll
                     /\ runs[i].calls.fetch = 0)
               /\ runs'[j].pollCount \in {runs[i].pollCount, runs[i].pollCount + 1}
               /\ (runs'[j].pollCount = runs[i].pollCount + 1 => runs[i].pc = "poll")
        /\ (loadingMessage'.attempt \notin {0, loadingMessage.attempt} =>
              /\ loadingMessage'.attempt = loadingMessage.attempt + 1
              /\ loadingMessage'.attempt <= maxPolls)]_vars

\* the second status query answered done with two videos and the first
\* fetch is pending
FetchAfterSecondPoll ==
  \E i \in DOMAIN runs :
    /\ runs[i].pc = "fetch"
    /\ runs[i].calls.poll = 2
    /\ runs[i].pollCount = 2
    /\ runs[i].calls.fetch = 1
    /\ Len(runs[i].operation.videos.list) = 2

\* C12: in every reachable state every URL of generatedVideos, the batch the
\* video grid renders, is in the store of live object URLs: none of them has
\* been revoked; and the batch names no URL twice.
VisibleBatchIsLive ==
  /\ Range(generatedVideos) \subseteq blobStore
  /\ Cardinality(Range(generatedVideos)) = Len(generatedVideos)

\* a second run has installed its batch after the batch of the first run was
\* revoked by the submission
SecondBatchVisible ==
  /\ started = 2
  /\ ~isLoading
  /\ Len(generatedVideos) = 2
  /\ \E i \in EndedRuns : runs[i].id = 2 /\ runs[i].installed = generatedVideos

\* C13: whatever number the num-videos input delivers, the stored
\* numberOfVideos is that number brought into 1..4 (a number below 1 gives
\* 1, a number above 4 gives 4, a number in between is kept); handleClear
\* stores 1; so the stored value is in 1..4 in every state, and every
\* generateVideos call carries the stored value as config.numberOfVideos.
VideoCountClamped ==
  /\ [](numberOfVideos \in MinVideos..MaxVideoCount)
  /\ [](\A i \in DOMAIN runs :
          runs[i].pc = "generate" =>
            runs[i].request.config.numberOfVideos \in MinVideos..MaxVideoCount)
  /\ [][/\ \A v \in SettingsInputs :
             changeNumVideosTo(v) =>
               numberOfVideos' = IF v < 1 THEN 1 ELSE IF v > 4 THEN 4 ELSE v
        /\ handleClear => numberOfVideos' = 1
        /\ started' = started + 1 =>
             \E j \in DOMAIN runs' :
               /\ runs'[j].id = started'
               /\ runs'[j].request.config.numberOfVideos = numberOfVideos]_vars

\* a generateVideos call is pending with config.numberOfVideos = 4 while the
\* setting has since been changed to 3
FourVideosRequested ==
  \E i \in DOMAIN runs :
    /\ runs[i].pc = "generate"
    /\ runs[i].request.config.numberOfVideos = MaxVideoCount
    /\ numberOfVideos = 3

\* C14: a run that failed with a raw message containing 'Requested entity
\* was not found' reports the not-found message, and the model named in it
\* is the model of the payload the run passed to generateVideos.
NotFoundNamesModel ==
  \A i \in DOMAIN runs :
    /\ runs[i].pc = "generate" => runs[i].request.model = runs[i].model
    /\ runs[i].model = "veo-2.0-generate-001"
    /\ (~Live(runs[i]) /\ Includes(runs[i].raw, TNotFound))
         => /\ showErrorModal
            /\ errorMessage = <<"Error: The model '", runs[i].model,
                                "' was not found. Please check the model name.">>

\* a status query was rejected with the not-found text and the run reports
\* the model by name
NotFoundReported ==
  \E i \in EndedRuns :
    /\ runs[i].raw = <<TNotFound>>
    /\ runs[i].calls.poll >= 1
    /\ Len(errorMessage) = 3
    /\ errorMessage[2] = ModelName

\* C15: the step that starts a run revokes every URL of the prior batch and
\* empties the batch, so that whenever a generateVideos call is pending the
\* batch is empty and none of the revoked URLs is live; the batch is empty
\* in every state in which a run is in flight and becomes non-empty only by
\* a run installing its result; a run that ended with an error leaves the
\* batch empty.
PriorBatchReleasedOnSubmit ==
  /\ [][started' = started + 1 =>
          /\ revokedNow' = generatedVideos
          /\ Range(generatedVideos) \subseteq blobStore
          /\ blobStore' = blobStore \ Range(generatedVideos)
          /\ generatedVideos' = <<>>
          /\ \E j \in DOMAIN runs' :
               /\ runs'[j].id = started'
               /\ runs'[j].pc = "generate"
               /\ runs'[j].operation = NoOperation]_vars
  /\ [](\A i \in DOMAIN runs :
          Live(runs[i]) => generatedVideos = <<>> /\ runs[i].installed = <<>>)
  /\ [][(generatedVideos = <<>> /\ generatedVideos' # <<>>) =>
          \E j \in DOMAIN runs' :
            /\ ~Live(runs'[j])
            /\ runs'[j].errors = 0
            /\ runs'[j].installed = generatedVideos']_vars
  /\ [](\A i \in EndedRuns : runs[i].errors >= 1 => generatedVideos = <<>>)

\* the second submission has just revoked a batch of one and its
\* generateVideos call is pending
SubmittedOverBatchOfOne ==
  /\ Len(revokedNow) = 1
  /\ revokedNow[1] \notin blobStore
  /\ generatedVideos = <<>>
  /\ \E i \in DOMAIN runs : runs[i].id = 2 /\ runs[i].pc = "generate"

\* C16: when a run has ended, every object URL it created is either in the
\* installed batch (generatedVideos) or no longer in the store of live
\* object URLs (it has been revoked).
CreatedUrlsInstalledOrReleased ==
  \A i \in EndedRuns :
    \A h \in Range(runs[i].videoUrls) :
      h \in Range(generatedVideos) \/ h \notin blobStore

\* C17: a run ends with the time-out error only with its counter at 60 and
\* its last status not done; once a status query has answered done, the k-th
\* say, k up to and including 60, no further wait or query follows (the
\* number of queries stays k) and the run goes on to the result test: it
\* ends with the no-result error or has a fetch issued, and never reports
\* the time-out.
DoneStopsPolling ==
  /\ [](\A i \in DOMAIN runs :
          /\ runs[i].raw = TimeoutMsg =>
               /\ runs[i].pollCount = maxPolls
               /\ ~runs[i].operation.done
          /\ (runs[i].operation.done /\ runs[i].pollCount >= 1) =>
               /\ runs[i].pc \in {"fetch", "blob", "done"}
               /\ runs[i].calls.poll = runs[i].pollCount
               /\ runs[i].waited = runs[i].pollCount * PollInterval
               /\ runs[i].raw # TimeoutMsg
               /\ IF Len(runs[i].operation.videos.list) = 0
                  THEN runs[i].raw = NoResultMsg /\ runs[i].calls.fetch = 0
                  ELSE runs[i].calls.fetch >= 1)
  /\ [][\A i \in DOMAIN runs : \A j \in DOMAIN runs' :
          (runs[i].id = runs'[j].id /\ runs[i].operation.done) =>
            /\ runs'[j].calls.poll = runs[i].calls.poll
            /\ runs'[j].pollCount = runs[i].pollCount
            /\ runs'[j].operation = runs[i].operation]_vars

\* the 60th status query answered done with a video and the fetch is pending
DoneAtSixtiethPoll ==
  \E i \in DOMAIN runs :
    /\ runs[i].pollCount = maxPolls
    /\ runs[i].operation.done
    /\ runs[i].pc = "fetch"
    /\ isLoading

\* C18: the first status query is passed the operation generateVideos
\* returned and query k + 1 the operation query k returned, so the operation
\* held after k answered queries is the k-th successor of the first one; the
\* loop test, the time-out test and the result test read the operation
\* received last: a run waits or queries only with that operation not done,
\* reports the time-out only with it not done, reports no result only with
\* it done and without videos, and fetches only with it done with videos.
PollPassesLastOperation ==
  \A i \in DOMAIN runs :
    /\ runs[i].calls.poll >= 1 => runs[i].polledWith = runs[i].calls.poll
    /\ runs[i].pc = "poll" => runs[i].polledWith = runs[i].operation.ver
    /\ runs[i].operation.ver \in {0, 1 + runs[i].pollCount}
    /\ runs[i].operation.ver = 0 =>
         runs[i].pc = "generate" \/ (runs[i].pc = "done" /\ runs[i].calls.poll = 0)
    /\ runs[i].pc \in {"wait", "poll"} => ~runs[i].operation.done
    /\ runs[i].raw = TimeoutMsg => ~runs[i].operation.done
    /\ runs[i].raw = NoResultMsg =>
         runs[i].operation.done /\ Len(runs[i].operation.videos.list) = 0
    /\ runs[i].pc \in {"fetch", "blob"} =>
         /\ runs[i].operation.done
         /\ Len(runs[i].videoUrls) < Len(runs[i].operation.videos.list)
    /\ (runs[i].pc = "done" /\ runs[i].errors = 0) =>
         /\ runs[i].operation.done
         /\ Len(runs[i].installed) = Len(runs[i].operation.videos.list)

\* the second status query is pending, passed the operation the first query
\* returned
SecondPollPending ==
  \E i \in DOMAIN runs :
    /\ runs[i].pc = "poll"
    /\ runs[i].calls.poll = 2
    /\ runs[i].polledWith = 2
    /\ runs[i].operation.ver = 2

\* C19: handleClear taken while a run is in flight leaves isLoading true and
\* leaves the run as it is, at the same position with the same calls made
\* and the same URLs collected, and revokes none of the URLs the run has
\* created; the URLs a run in flight has collected are live; and a run that
\* ends without error, whatever handlers ran meanwhile, has its URLs
\* installed as the batch, all of them live.
ClearDoesNotCancelRun ==
  /\ [][(handleClear /\ isLoading) =>
          /\ isLoading'
          /\ loadingMessage' = loadingMessage
          /\ runs' = InFlight
          /\ LiveRuns' # {}
          /\ blobStore' = blobStore]_vars
  /\ [](\A i \in LiveRuns :
          /\ isLoading
          /\ Range(runs[i].videoUrls) \subseteq blobStore
          /\ Cardinality(Range(runs[i].videoUrls)) = Len(runs[i].videoUrls))
  /\ [](\A i \in EndedRuns :
          runs[i].errors = 0 =>
            /\ ~isLoading
            /\ generatedVideos = runs[i].videoUrls
            /\ Len(generatedVideos) = Len(runs[i].operation.videos.list)
            /\ Range(generatedVideos) \subseteq blobStore)

\* a run has installed a batch of two; the inputs it was started with were
\* reset to their defaults while it was in flight
InstalledAfterClear ==
  \E i \in EndedRuns :
    /\ runs[i].errors = 0
    /\ Len(generatedVideos) = 2
    /\ Range(generatedVideos) \subseteq blobStore
    /\ prompt = ""
    /\ uploadedImage = NoImage
    /\ numberOfVideos = 1
    /\ ~isLoading

\* C20: a run whose generateVideos call returned an operation that is
\* already done makes no wait and no status query and shows no polling
\* attempt: straight from that answer it ends with the no-result error, if
\* the operation has no videos, or issues the first fetch under the
\* fetching message.
DoneAtSubmissionSkipsPolling ==
  /\ [](\A i \in DOMAIN runs :
          (runs[i].operation.ver = 1 /\ runs[i].operation.done) =>
            /\ runs[i].calls.poll = 0
            /\ runs[i].waited = 0
            /\ runs[i].pollCount = 0
            /\ runs[i].polledWith = 0
            /\ runs[i].pc \in {"fetch", "blob", "done"}
            /\ Live(runs[i]) => loadingMessage = FetchingMsg
            /\ IF Len(runs[i].operation.videos.list) = 0
               THEN /\ runs[i].pc = "done"
                    /\ runs[i].raw = NoResultMsg
                    /\ runs[i].calls.fetch = 0
               ELSE runs[i].calls.fetch >= 1)
  /\ [][\A i \in DOMAIN runs : \A j \in DOMAIN runs' :
          (/\ runs[i].id = runs'[j].id
           /\ runs[i].pc = "generate"
           /\ runs'[j].operation.done) =>
            /\ loadingMessage'.attempt = 0
            /\ \/ runs'[j].pc = "fetch" /\ runs'[j].calls.fetch = 1
               \/ runs'[j].pc = "done" /\ runs'[j].raw = NoResultMsg]_vars

\* generateVideos answered done with two videos and the first fetch is
\* pending, no status query made
FetchWithoutPolling ==
  \E i \in DOMAIN runs :
    /\ runs[i].operation.ver = 1
    /\ runs[i].operation.done
    /\ Len(runs[i].operation.videos.list) = 2
    /\ runs[i].pc = "fetch"
    /\ runs[i].calls.poll = 0
    /\ loadingMessage = FetchingMsg

====
